---- MODULE Spec2Model ----
(***************************************************************************)
(* Broadcast channel of OpenNeuro (backend/src/core/channel.py): one       *)
(* producer-side send(), per-subscriber cursors keyed by id(subscriber),   *)
(* the stream() generator with its timed condition wait, and _gc.          *)
(*                                                                         *)
(* Every block that runs under `with self._condition` is one atomic        *)
(* action; Condition.wait(0.1) releases the lock, so _wait_and_get is      *)
(* split at the wait (Enter / Wake).  An item is identified by the number  *)
(* of the send() call that offered it.                                     *)
(*                                                                         *)
(* Component lifecycle (backend/src/core/component.py, the same code in    *)
(* backend/src/openneuro/core/component.py): start(), stop() and the       *)
(* worker thread running _safe_run().  start() and stop() are each one     *)
(* action: a stop() that lands between the status test and the clear() of  *)
(* a start() has the outcome of a stop() made just before that start().    *)
(***************************************************************************)
EXTENDS Integers, Sequences, FiniteSets, TLC

\* ------------------------------------------------------------------ bounds
\* number of send() calls explored
MaxSend == 2

\* number of send() calls explored when only the two threads of component A
\* use the channel
MaxSendDeep == 4

\* number of send() calls when snapshots are taken between them
MaxSendSnap == 3

\* number of worker threads a component is given over its life
MaxWorkers == 3

\* number of stop() calls counted per component
MaxStop == 2

\* number of edges the graph holds
MaxEdges == 2

\* number of workers start_all gives a node over its life
MaxRestarts == 2

\* number of Topic.send() calls explored
MaxTopicSend == 3

\* number of node names and of edges in a pipeline config
MaxNames == 3

MaxPipeEdges == 2

\* number of frames the video worker delivers
MaxFrames == 2

\* Consumer threads and the component that owns each of them.  a1 and a2
\* are two threads of one component (AgentState.run starts one thread per
\* input slot, and two slots may be bound to the same channel); b1 belongs
\* to another component.
Threads == {"a1", "a2", "b1"}
Owners == {"A", "B"}

OwnerOf(t) == IF t \in {"a1", "a2"} THEN "A" ELSE "B"

\* -------------------------------------------------------------------- state
VARIABLES
    items,            \* Channel._items
    offset,           \* Channel._offset
    cursors,          \* Channel._cursors: sub_id -> absolute index
    sub_msg,          \* Channel._sub_msg_count_delta
    sub_byte,         \* Channel._sub_byte_count_delta
    msg_count,        \* Channel._msg_count_delta
    byte_count,       \* Channel._byte_count_delta
    last_send_time,   \* Channel._last_send_time (logical clock = sendCalls)
    stop_event,       \* Component._stop_event of each owner
    pc,               \* position of each consumer thread in stream()
    index,            \* local `index` of _wait_and_get in each thread
    got,              \* history: items yielded to each thread, in order
    regTail,          \* history: tail index when the thread registered
    owed,             \* history: items sent while the thread's stream was open
    sendCalls,        \* history: number of send() calls made
    published,        \* history: the accepted items, in publish order
    status,           \* Component._status of each owner
    started_at,       \* Component._started_at (0 = None, else a logical time)
    error,            \* Component._error ("None" = None)
    workers,          \* the threads start() has spawned, in spawn order
    snapSum,          \* history: sum of msg_count_delta over the snapshots
    lastSnap,         \* history: the last ChannelSnapshot returned
    stopCalls,        \* history: number of stop() calls counted per owner
    nodes,            \* Graph.nodes: node id -> class of the component
    edges,            \* Graph.edges, a list
    call,             \* history: the last graph operation and its outcome
    passed,           \* history: the bindings start_all last passed to start()
    inputs,           \* the input bindings of the worker last spawned per node
    restart,          \* history: nodes stopped by an edit while running
    topic_items,      \* Topic._items
    topic_offset,     \* Topic._offset
    topic_cursors,    \* Topic._cursors: sub_id -> absolute index
    topic_sent,       \* history: number of Topic.send() calls made
    stream_pc,        \* position of each Stream's consumer in Stream.send()
    stream_index,     \* Stream._index
    stream_sub,       \* the subscript index - self._offset once evaluated
    stream_got,       \* history: items returned by each Stream, in order
    stream_reg,       \* history: the index each Stream registered at
    pipe_config,      \* history: the config of the last PipelineManager.apply
    pipe_result,      \* history: the dict that apply returned
    pipe_nodes,       \* PipelineManager._nodes: the nodes that were started
    latest_frame,     \* VideoStream._latest_frame (0 = None, else frame number)
    frame_event,      \* VideoStream._frame_event
    video_pc,         \* position of the worker in the body of VideoStream.run
    wait_pc,          \* position of the caller in wait_for_frame
    wait_ret,         \* history: what the last wait_for_frame returned
    wait_before       \* history: the frames earlier calls returned

vars == <<items, offset, cursors, sub_msg, sub_byte, msg_count, byte_count,
          last_send_time, stop_event, pc, index, got, regTail, owed,
          sendCalls, published, status, started_at, error, workers,
          snapSum, lastSnap, stopCalls, nodes, edges, call, passed, inputs,
          restart, topic_items, topic_offset, topic_cursors, topic_sent,
          stream_pc, stream_index, stream_sub, stream_got, stream_reg,
          pipe_config, pipe_result, pipe_nodes, latest_frame, frame_event,
          video_pc, wait_pc, wait_ret, wait_before>>

chanVars == <<items, offset, cursors, sub_msg, sub_byte, msg_count,
              byte_count, last_send_time>>

histVars == <<got, regTail, owed, sendCalls, published>>

lifeVars == <<status, started_at, error, workers>>

snapVars == <<snapSum, lastSnap>>

graphVars == <<nodes, edges, call, passed, inputs, restart>>

topicVars == <<topic_items, topic_offset, topic_cursors, topic_sent,
               stream_pc, stream_index, stream_sub, stream_got, stream_reg>>

\* the state of the parts of the repository that the channel, the component
\* and the graph service never touch
pipeVars == <<pipe_config, pipe_result, pipe_nodes>>

videoVars == <<latest_frame, frame_event, video_pc, wait_pc, wait_ret, wait_before>>

\* apply() has not been called
NoConfig == [nodes |-> <<>>, edges |-> <<>>]

NoResult == [status |-> "none", detail |-> "-"]

\* wait_for_frame has not returned yet
NoReturn == -1

sideVars == <<topicVars, pipeVars, videoVars>>

\* what no operation of the channel's producer and consumers touches
restVars == <<lifeVars, snapVars, stopCalls, graphVars, sideVars>>

\* the Stream objects of the Topic revision (each has its own sub_id)
Streams == {"s1", "s2"}

\* lastSnap before any snapshot was taken
NoSnapshot == [taken |-> FALSE]

\* ------------------------------------------------------------------ helpers
\* dict[k] = v
Put(f, k, v) == [x \in (DOMAIN f) \cup {k} |-> IF x = k THEN v ELSE f[x]]

\* dict.pop(k, None)
Pop(f, k) == [x \in (DOMAIN f) \ {k} |-> f[x]]

\* dict.get(k, 0)
Get0(f, k) == IF k \in DOMAIN f THEN f[k] ELSE 0

\* min(dict.values()) of a non-empty dict
MinCursor(c) == CHOOSE m \in {c[k] : k \in DOMAIN c} : \A k \in DOMAIN c : m <= c[k]

\* sys.getsizeof(item): the frames of one channel are instances of one class
SizeOf(item) == 2

\* id(subscriber)
SubId(t) == OwnerOf(t)

\* self._offset + len(self._items)
TailIndex == offset + Len(items)

\* the stream() generator of t has started and has not finished
Open(t) == pc[t] \notin {"idle", "closed", "failed"}

\* ------------------------------------------------------------- Channel._gc
\* result of _gc on cursors c, buffer its, offset off: <<items, offset>>
GcDrop(c, off) == IF DOMAIN c = {} THEN 0 ELSE MinCursor(c) - off

Gc(c, its, off) ==
    LET drop == GcDrop(c, off) IN
    IF drop > 0
    THEN <<SubSeq(its, drop + 1, Len(its)), off + drop>>
    ELSE <<its, off>>

\* -------------------------------------------------------------------- Init
Init ==
    /\ items = <<>>
    /\ offset = 0
    /\ cursors = [o \in {} |-> 0]
    /\ sub_msg = [o \in {} |-> 0]
    /\ sub_byte = [o \in {} |-> 0]
    /\ msg_count = 0
    /\ byte_count = 0
    /\ last_send_time = 0
    /\ stop_event = [o \in Owners |-> FALSE]
    /\ pc = [t \in Threads |-> "idle"]
    /\ index = [t \in Threads |-> 0]
    /\ got = [t \in Threads |-> <<>>]
    /\ regTail = [t \in Threads |-> 0]
    /\ owed = [t \in Threads |-> {}]
    /\ sendCalls = 0
    /\ published = <<>>
    /\ status = [o \in Owners |-> "startup"]
    /\ started_at = [o \in Owners |-> 0]
    /\ error = [o \in Owners |-> "None"]
    /\ workers = [o \in Owners |-> <<>>]
    /\ snapSum = 0
    /\ lastSnap = NoSnapshot
    /\ stopCalls = [o \in Owners |-> 0]
    /\ nodes = [o \in {} |-> "None"]
    /\ edges = <<>>
    /\ call = [op |-> "none", n1 |-> "-", s1 |-> "-", n2 |-> "-", s2 |-> "-", err |-> "ok"]
    /\ passed = [o \in Owners |-> [x \in {} |-> <<>>]]
    /\ inputs = [o \in Owners |-> [x \in {} |-> <<>>]]
    /\ restart = {}
    /\ topic_items = <<>>
    /\ topic_offset = 0
    /\ topic_cursors = [x \in {} |-> 0]
    /\ topic_sent = 0
    /\ stream_pc = [x \in Streams |-> "idle"]
    /\ stream_index = [x \in Streams |-> 0]
    /\ stream_sub = [x \in Streams |-> 0]
    /\ stream_got = [x \in Streams |-> <<>>]
    /\ stream_reg = [x \in Streams |-> 0]
    /\ pipe_config = NoConfig
    /\ pipe_result = NoResult
    /\ pipe_nodes = {}
    /\ latest_frame = 0
    /\ frame_event = FALSE
    /\ video_pc = "loop"
    /\ wait_pc = "idle"
    /\ wait_ret = NoReturn
    /\ wait_before = {}

\* ------------------------------------------------------------ Channel.send
\* send() number sendCalls + 1, while fewer than n calls have been made
SendUpTo(n) ==
    /\ sendCalls < n
    /\ sendCalls' = sendCalls + 1
    /\ IF DOMAIN cursors = {}
       THEN UNCHANGED <<items, msg_count, byte_count, last_send_time,
                        published, owed>>
       ELSE /\ items' = Append(items, sendCalls')
            /\ msg_count' = msg_count + 1
            /\ byte_count' = byte_count + SizeOf(sendCalls')
            /\ last_send_time' = sendCalls'
            /\ published' = Append(published, sendCalls')
            /\ owed' = [t \in Threads |->
                          IF Open(t) /\ SubId(t) \in DOMAIN cursors
                          THEN owed[t] \cup {sendCalls'} ELSE owed[t]]
    /\ UNCHANGED <<offset, cursors, sub_msg, sub_byte, stop_event, pc, index,
                   got, regTail, restVars>>

\* send() that keeps the item whether or not anybody listens
SendAlways ==
    /\ sendCalls < MaxSend
    /\ sendCalls' = sendCalls + 1
    /\ items' = Append(items, sendCalls')
    /\ msg_count' = msg_count + 1
    /\ byte_count' = byte_count + SizeOf(sendCalls')
    /\ last_send_time' = sendCalls'
    /\ published' = Append(published, sendCalls')
    /\ owed' = [t \in Threads |->
                  IF Open(t) /\ SubId(t) \in DOMAIN cursors
                  THEN owed[t] \cup {sendCalls'} ELSE owed[t]]
    /\ UNCHANGED <<offset, cursors, sub_msg, sub_byte, stop_event, pc, index,
                   got, regTail, restVars>>

Send == SendUpTo(MaxSend)

SendDeep == SendUpTo(MaxSendDeep)

SendSnap == SendUpTo(MaxSendSnap)

\* ------------------------------------------- Channel.stream: first next()
\* stop_event = subscriber.stop_event; sub_id = self._register(subscriber)
Register(t) ==
    /\ pc[t] = "idle"
    /\ cursors' = Put(cursors, SubId(t), TailIndex)
    /\ sub_msg' = Put(sub_msg, SubId(t), 0)
    /\ sub_byte' = Put(sub_byte, SubId(t), 0)
    /\ regTail' = [regTail EXCEPT ![t] = TailIndex]
    /\ pc' = [pc EXCEPT ![t] = "loop"]
    /\ UNCHANGED <<items, offset, msg_count, byte_count, last_send_time,
                   stop_event, index, got, owed, sendCalls, published, restVars>>

\* line 86 after registering: while not stop_event.is_set(); when the
\* signal is set the generator yields None at line 89 ("sentinel")
LoopCheck(t) ==
    /\ pc[t] = "loop"
    /\ pc' = [pc EXCEPT ![t] = IF stop_event[OwnerOf(t)] THEN "sentinel" ELSE "enter"]
    /\ UNCHANGED <<chanVars, stop_event, index, histVars, restVars>>

\* ------------------------------------------------- Channel._wait_and_get
\* self._items[k] with Python's negative indexing; 0 when IndexError
PyIndexOk(its, k) == -Len(its) <= k /\ k < Len(its)

PyIndex(its, k) == IF k >= 0 THEN its[k + 1] ELSE its[Len(its) + k + 1]

\* lines 108-113 for thread t holding local index i
Take(t, i) ==
    IF ~PyIndexOk(items, i - offset)
    THEN /\ pc' = [pc EXCEPT ![t] = "indexError"]
         /\ UNCHANGED <<chanVars, got>>
    ELSE LET item == PyIndex(items, i - offset)
             c == Put(cursors, SubId(t), i + 1)
             g == Gc(c, items, offset)
         IN /\ cursors' = c
            /\ sub_msg' = Put(sub_msg, SubId(t), Get0(sub_msg, SubId(t)) + 1)
            /\ sub_byte' = Put(sub_byte, SubId(t), Get0(sub_byte, SubId(t)) + SizeOf(item))
            /\ items' = g[1]
            /\ offset' = g[2]
            /\ got' = [got EXCEPT ![t] = Append(@, item)]
            /\ pc' = [pc EXCEPT ![t] = "yielded"]
            /\ UNCHANGED <<msg_count, byte_count, last_send_time>>

\* lines 102-104: take the lock, read the cursor, test the loop condition
Enter(t) ==
    /\ pc[t] = "enter"
    /\ IF SubId(t) \notin DOMAIN cursors
       THEN /\ pc' = [pc EXCEPT ![t] = "keyError"]
            /\ UNCHANGED <<chanVars, index, got>>
       ELSE LET i == cursors[SubId(t)] IN
            IF i >= TailIndex
            THEN /\ pc' = [pc EXCEPT ![t] = "waiting"]
                 /\ index' = [index EXCEPT ![t] = i]
                 /\ UNCHANGED <<chanVars, got>>
            ELSE /\ Take(t, i)
                 /\ UNCHANGED index
    /\ UNCHANGED <<stop_event, regTail, owed, sendCalls, published, restVars>>

\* a wait that looks at the buffer before the cancel signal
WakeItemFirst(t) ==
    /\ pc[t] = "waiting"
    /\ IF index[t] < TailIndex
       THEN Take(t, index[t])
       ELSE /\ stop_event[OwnerOf(t)]
            /\ pc' = [pc EXCEPT ![t] = "cancelled"]
            /\ UNCHANGED <<chanVars, got>>
    /\ index' = [index EXCEPT ![t] = 0]
    /\ UNCHANGED <<stop_event, regTail, owed, sendCalls, published, restVars>>

\* lines 105-107: wait(0.1) returns (notify or timeout) with the lock held;
\* on cancel the call returns None, which line 88 yields ("cancelled").
\* The local index is dead once the call has returned.
Wake(t) ==
    /\ pc[t] = "waiting"
    /\ IF stop_event[OwnerOf(t)]
       THEN /\ pc' = [pc EXCEPT ![t] = "cancelled"]
            /\ UNCHANGED <<chanVars, got>>
       ELSE /\ index[t] < TailIndex
            /\ Take(t, index[t])
    /\ index' = [index EXCEPT ![t] = 0]
    /\ UNCHANGED <<stop_event, regTail, owed, sendCalls, published, restVars>>

\* -------------------------------------------------- Channel._unregister
\* _unregister that removes the cursor and the counters and leaves the
\* buffer as it is
UnregisterNoGc(sid) ==
    IF sid \notin DOMAIN cursors
    THEN UNCHANGED chanVars
    ELSE /\ cursors' = Pop(cursors, sid)
         /\ sub_msg' = Pop(sub_msg, sid)
         /\ sub_byte' = Pop(sub_byte, sid)
         /\ UNCHANGED <<items, offset, msg_count, byte_count, last_send_time>>

Unregister(sid) ==
    IF sid \notin DOMAIN cursors
    THEN UNCHANGED chanVars
    ELSE LET c == Pop(cursors, sid)
             g == Gc(c, items, offset)
         IN /\ cursors' = c
            /\ sub_msg' = Pop(sub_msg, sid)
            /\ sub_byte' = Pop(sub_byte, sid)
            /\ items' = g[1]
            /\ offset' = g[2]
            /\ UNCHANGED <<msg_count, byte_count, last_send_time>>

\* the consumer asks for the next item after a yielded item: the generator
\* resumes after line 88 and evaluates the loop condition of line 86
Resume(t) ==
    /\ pc[t] = "yielded"
    /\ pc' = [pc EXCEPT ![t] = IF stop_event[OwnerOf(t)] THEN "sentinel" ELSE "enter"]
    /\ UNCHANGED <<chanVars, stop_event, index, histVars, restVars>>

\* the consumer drops the generator at a yield (the `break` on None that
\* every consumer makes, or an exception in its loop body): GeneratorExit
\* runs the finally clause
Close(t) ==
    /\ pc[t] \in {"yielded", "cancelled", "sentinel"}
    /\ Unregister(SubId(t))
    /\ pc' = [pc EXCEPT ![t] = "closed"]
    /\ UNCHANGED <<stop_event, index, histVars, restVars>>

\* an exception raised in _wait_and_get unwinds through the finally clause
\* and reaches the consumer
Unwind(t) ==
    /\ pc[t] \in {"keyError", "indexError"}
    /\ Unregister(SubId(t))
    /\ pc' = [pc EXCEPT ![t] = "failed"]
    /\ UNCHANGED <<stop_event, index, histVars, restVars>>

\* ---------------------------------------------------------- Component.stop
\* if self.status == Status.STOPPED: return; self._stop_event.set()
\* (a call that changes nothing is a stuttering step)
Stop(o) ==
    /\ status[o] # "stopped"
    /\ ~stop_event[o]
    /\ stop_event' = [stop_event EXCEPT ![o] = TRUE]
    /\ UNCHANGED <<chanVars, pc, index, histVars, restVars>>

\* stop() that trips the signal of a stopped component too
StopCallAlways(o) ==
    /\ stopCalls[o] < MaxStop
    /\ stopCalls' = [stopCalls EXCEPT ![o] = @ + 1]
    /\ stop_event' = [stop_event EXCEPT ![o] = TRUE]
    /\ UNCHANGED <<chanVars, pc, index, histVars, lifeVars, snapVars, graphVars, sideVars>>

\* the same stop(), every call counted, also the calls that change nothing
StopCall(o) ==
    /\ stopCalls[o] < MaxStop
    /\ stopCalls' = [stopCalls EXCEPT ![o] = @ + 1]
    /\ stop_event' = [stop_event EXCEPT ![o] = IF status[o] = "stopped" THEN @ ELSE TRUE]
    /\ UNCHANGED <<chanVars, pc, index, histVars, lifeVars, snapVars, graphVars, sideVars>>

\* ------------------------------------------------------- Channel.snapshot
\* the ChannelSnapshot built inside the critical section
ChannelSnapshot ==
    [taken |-> TRUE,
     lag |-> [k \in DOMAIN cursors |-> TailIndex - cursors[k]],
     msg_count_delta |-> msg_count,
     buffer_depth |-> Len(items)]

\* snapshot() that reads the counters and leaves them as they are
SnapshotNoReset ==
    /\ lastSnap' = ChannelSnapshot
    /\ snapSum' = snapSum + msg_count
    /\ UNCHANGED <<chanVars, stop_event, pc, index, histVars, lifeVars, stopCalls, graphVars, sideVars>>

\* snapshot() that also empties the buffer
SnapshotDrain ==
    /\ lastSnap' = ChannelSnapshot
    /\ snapSum' = snapSum + msg_count
    /\ msg_count' = 0
    /\ byte_count' = 0
    /\ sub_msg' = [k \in DOMAIN sub_msg |-> 0]
    /\ sub_byte' = [k \in (DOMAIN sub_byte) \cup (DOMAIN sub_msg) |-> 
                       IF k \in DOMAIN sub_msg THEN 0 ELSE sub_byte[k]]
    /\ items' = <<>>
    /\ offset' = TailIndex
    /\ UNCHANGED <<cursors, last_send_time, stop_event, pc, index,
                   histVars, lifeVars, stopCalls, graphVars, sideVars>>

\* snapshot(): one critical section reads lag, depth and the deltas and
\* resets every delta counter
Snapshot ==
    /\ lastSnap' = ChannelSnapshot
    /\ snapSum' = snapSum + msg_count
    /\ msg_count' = 0
    /\ byte_count' = 0
    /\ sub_msg' = [k \in DOMAIN sub_msg |-> 0]
    /\ sub_byte' = [k \in (DOMAIN sub_byte) \cup (DOMAIN sub_msg) |-> 
                       IF k \in DOMAIN sub_msg THEN 0 ELSE sub_byte[k]]
    /\ UNCHANGED <<items, offset, cursors, last_send_time, stop_event, pc, index,
                   histVars, lifeVars, stopCalls, graphVars, sideVars>>

\* --------------------------------------------------------- Component.start
\* the worker threads of o that are inside run()
InRun(o) == {w \in 1..Len(workers[o]) : workers[o][w] = "run"}

\* the worker threads of o that have not finished _safe_run
Alive(o) == {w \in 1..Len(workers[o]) : workers[o][w] \in {"spawned", "run"}}

\* start() that leaves the cancel signal as it is
StartNoClear(o) ==
    /\ status[o] # "running"
    /\ Len(workers[o]) < MaxWorkers
    /\ workers' = [workers EXCEPT ![o] = Append(@, "spawned")]
    /\ UNCHANGED <<chanVars, stop_event, pc, index, histVars, status,
                   started_at, error, snapVars, stopCalls, graphVars, sideVars>>

\* if self.status == Status.RUNNING: return
\* self._stop_event.clear(); self._thread = Thread(target=self._safe_run); start()
Start(o) ==
    /\ status[o] # "running"
    /\ Len(workers[o]) < MaxWorkers
    /\ stop_event' = [stop_event EXCEPT ![o] = FALSE]
    /\ workers' = [workers EXCEPT ![o] = Append(@, "spawned")]
    /\ UNCHANGED <<chanVars, pc, index, histVars, status, started_at, error,
                   snapVars, stopCalls, graphVars, sideVars>>

\* ------------------------------------------------------ Component._safe_run
\* the worker is scheduled: self._status = RUNNING; self._started_at = time()
\* (the logical time is the number of the worker)
SafeRunBegin(o, w) ==
    /\ w \in 1..Len(workers[o])
    /\ workers[o][w] = "spawned"
    /\ workers' = [workers EXCEPT ![o][w] = "run"]
    /\ status' = [status EXCEPT ![o] = "running"]
    /\ started_at' = [started_at EXCEPT ![o] = w]
    /\ UNCHANGED <<chanVars, stop_event, pc, index, histVars, error, snapVars, stopCalls, graphVars, sideVars>>

\* _safe_run whose finally clause is skipped when run() raises
SafeRunEndLeaky(o, w, how) ==
    /\ w \in 1..Len(workers[o])
    /\ workers[o][w] = "run"
    /\ workers' = [workers EXCEPT ![o][w] = how]
    /\ status' = [status EXCEPT ![o] = IF how = "raised" THEN @ ELSE "stopped"]
    /\ UNCHANGED <<chanVars, stop_event, pc, index, histVars, started_at,
                   error, snapVars, stopCalls, graphVars, sideVars>>

\* run() leaves in the way `how`; finally: self._status = STOPPED
SafeRunEnd(o, w, how) ==
    /\ w \in 1..Len(workers[o])
    /\ workers[o][w] = "run"
    /\ workers' = [workers EXCEPT ![o][w] = how]
    /\ status' = [status EXCEPT ![o] = "stopped"]
    /\ UNCHANGED <<chanVars, stop_event, pc, index, histVars, started_at,
                   error, snapVars, stopCalls, graphVars, sideVars>>

\* run() returns because it has observed the cancel signal
RunReturn(o, w) == stop_event[o] /\ SafeRunEnd(o, w, "returned")

\* run() returns on its own (no input bound, or its input ended)
RunReturnOwn(o, w) == ~stop_event[o] /\ SafeRunEnd(o, w, "returned")

\* run() raises
RunRaise(o, w) == SafeRunEnd(o, w, "raised")

\* ------------------------------------------------------ Component.snapshot
\* the fields of ComponentSnapshot that come from the component itself
ComponentSnapshot(o) == [status |-> status[o], started_at |-> started_at[o]]

\* The lifecycle of one component under any start() and stop() calls.
LifeOwners == {"A"}

WorkerIds == 1..MaxWorkers

LifeNext ==
    \/ \E o \in LifeOwners : Start(o)
    \/ \E o \in LifeOwners : StopCall(o)
    \/ \E o \in LifeOwners : \E w \in WorkerIds : SafeRunBegin(o, w)
    \/ \E o \in LifeOwners : \E w \in WorkerIds : RunReturn(o, w)
    \/ \E o \in LifeOwners : \E w \in WorkerIds : RunReturnOwn(o, w)
    \/ \E o \in LifeOwners : \E w \in WorkerIds : RunRaise(o, w)

LifeSpec == Init /\ [][LifeNext]_vars

\* A spawned thread is scheduled, and run() returns once it observes cancel.
LifeFairness ==
    \A o \in LifeOwners : \A w \in WorkerIds :
        /\ WF_vars(SafeRunBegin(o, w))
        /\ WF_vars(RunReturn(o, w))

FairLifeSpec == LifeSpec /\ LifeFairness


\* ============================================================ graph service
\* The registry: the classes a node can be made of, and their declared
\* slots with the element type of each (VAD and ASR of core/conduit).
Classes == {"VAD", "ASR"}

\* class names a caller may give to create_node
ClassNames == Classes \cup {"Unregistered"}

\* slot names a caller may give
Slots == {"audio", "interrupt"}

\* cls.get_input_types(): the parameters of run()
InputTypes(cls) ==
    IF cls = "VAD"
    THEN [audio |-> "AudioFrame"]
    ELSE [audio |-> "AudioFrame", interrupt |-> "InterruptFrame"]

\* cls.get_output_types(): the fields of the class's Outputs TypedDict
OutputTypes(cls) ==
    IF cls = "VAD"
    THEN [audio |-> "AudioFrame", interrupt |-> "InterruptFrame"]
    ELSE [text |-> "TextFrame", interrupt |-> "InterruptFrame"]

Edge(sn, ss, tn, ts) ==
    [source_node |-> sn, source_slot |-> ss, target_node |-> tn, target_slot |-> ts]

\* `edge in graph.edges`
InEdges(e, es) == \E i \in 1..Len(es) : es[i] = e

\* list.remove(e): the list without the first occurrence of e
RemoveFirst(es, e) ==
    LET i == CHOOSE k \in 1..Len(es) : es[k] = e /\ \A j \in 1..(k - 1) : es[j] # e
    IN SubSeq(es, 1, i - 1) \o SubSeq(es, i + 1, Len(es))

\* [e for e in es if keep(e)] for the edges not incident to node n
RECURSIVE WithoutNode(_, _)
WithoutNode(es, n) ==
    IF es = <<>> THEN <<>>
    ELSE IF Head(es).source_node # n /\ Head(es).target_node # n
         THEN <<Head(es)>> \o WithoutNode(Tail(es), n)
         ELSE WithoutNode(Tail(es), n)

\* the record kept of a call to the service
Called(op, a, sa, b, sb, err) ==
    [op |-> op, n1 |-> a, s1 |-> sa, n2 |-> b, s2 |-> sb, err |-> err]

\* stop() called on every node of S: stop_event afterwards
StopAllOf(S) ==
    [n \in Owners |-> IF n \in S /\ status[n] # "stopped" THEN TRUE ELSE stop_event[n]]

\* the nodes of S that are running when an edit stops them
Interrupted(S) == {n \in S : status[n] = "running"}

\* ------------------------------------------------------------- create_node
\* create_node that may insert the new component under the id of a node of
\* the graph
CreateNodeReuseId(cls) ==
    IF cls \notin Classes
    THEN /\ call' = Called("create_node", "-", "-", "-", "-", "UnknownComponent")
         /\ UNCHANGED <<nodes, edges, passed, inputs, restart, lifeVars, stop_event>>
         /\ UNCHANGED <<chanVars, pc, index, histVars, snapVars, stopCalls, sideVars>>
    ELSE \E id \in Owners :
            /\ Alive(id) = {}
            /\ nodes' = Put(nodes, id, cls)
            /\ status' = [status EXCEPT ![id] = "startup"]
            /\ started_at' = [started_at EXCEPT ![id] = 0]
            /\ error' = [error EXCEPT ![id] = "None"]
            /\ workers' = [workers EXCEPT ![id] = <<>>]
            /\ stop_event' = [stop_event EXCEPT ![id] = FALSE]
            /\ inputs' = [inputs EXCEPT ![id] = [x \in {} |-> <<>>]]
            /\ passed' = [passed EXCEPT ![id] = [x \in {} |-> <<>>]]
            /\ restart' = restart \ {id}
            /\ call' = Called("create_node", id, "-", "-", "-", "ok")
            /\ UNCHANGED edges
            /\ UNCHANGED <<chanVars, pc, index, histVars, snapVars, stopCalls, sideVars>>

\* node_id = str(id(comp)): the identity of the new component, which no
\* component still alive has (the nodes of the graph and the components whose
\* worker has not finished are alive)
CreateNode(cls) ==
    IF cls \notin Classes
    THEN /\ call' = Called("create_node", "-", "-", "-", "-", "UnknownComponent")
         /\ UNCHANGED <<nodes, edges, passed, inputs, restart, lifeVars, stop_event>>
         /\ UNCHANGED <<chanVars, pc, index, histVars, snapVars, stopCalls, sideVars>>
    ELSE \E id \in Owners \ DOMAIN nodes :
            \* id(comp) of the new component: no live object has it
            /\ Alive(id) = {}
            /\ nodes' = Put(nodes, id, cls)
            /\ status' = [status EXCEPT ![id] = "startup"]
            /\ started_at' = [started_at EXCEPT ![id] = 0]
            /\ error' = [error EXCEPT ![id] = "None"]
            /\ workers' = [workers EXCEPT ![id] = <<>>]
            /\ stop_event' = [stop_event EXCEPT ![id] = FALSE]
            /\ inputs' = [inputs EXCEPT ![id] = [x \in {} |-> <<>>]]
            /\ passed' = [passed EXCEPT ![id] = [x \in {} |-> <<>>]]
            /\ restart' = restart \ {id}
            /\ call' = Called("create_node", id, "-", "-", "-", "ok")
            /\ UNCHANGED edges
            /\ UNCHANGED <<chanVars, pc, index, histVars, snapVars, stopCalls, sideVars>>

\* ------------------------------------------------------------- delete_node
\* delete_node that stops the node and leaves its neighbours running
DeleteNodeOnlySelf(id) ==
    /\ call' = Called("delete_node", id, "-", "-", "-", "ok")
    /\ IF id \notin DOMAIN nodes
       THEN UNCHANGED <<nodes, edges, restart, stop_event>>
       ELSE /\ stop_event' = StopAllOf({id})
            /\ edges' = WithoutNode(edges, id)
            /\ nodes' = Pop(nodes, id)
            /\ restart' = restart \ {id}
    /\ UNCHANGED <<passed, inputs, lifeVars>>
    /\ UNCHANGED <<chanVars, pc, index, histVars, snapVars, stopCalls, sideVars>>

DeleteNode(id) ==
    /\ call' = Called("delete_node", id, "-", "-", "-", "ok")
    /\ IF id \notin DOMAIN nodes
       THEN UNCHANGED <<nodes, edges, restart, stop_event>>
       ELSE LET affected ==
                   {edges[i].target_node : i \in {k \in 1..Len(edges) : edges[k].source_node = id}}
                   \cup
                   {edges[i].source_node : i \in {k \in 1..Len(edges) : edges[k].target_node = id}}
                stopped == {id} \cup (affected \cap DOMAIN nodes)
            IN /\ stop_event' = StopAllOf(stopped)
               /\ edges' = WithoutNode(edges, id)
               /\ nodes' = Pop(nodes, id)
               /\ restart' = (restart \cup Interrupted(stopped)) \ {id}
    /\ UNCHANGED <<passed, inputs, lifeVars>>
    /\ UNCHANGED <<chanVars, pc, index, histVars, snapVars, stopCalls, sideVars>>

\* ------------------------------------------------------------- create_edge
\* the outcome of the checks create_edge makes, in their order
\* create_edge without the test for the two nodes
CreateEdgeErrorNoNode(sn, ss, tn, ts) ==
    IF sn \in DOMAIN nodes /\ ss \notin DOMAIN OutputTypes(nodes[sn]) THEN "SlotNotFound"
    ELSE IF tn \in DOMAIN nodes /\ ts \notin DOMAIN InputTypes(nodes[tn]) THEN "SlotNotFound"
    ELSE IF InEdges(Edge(sn, ss, tn, ts), edges) THEN "EdgeExists"
    ELSE "ok"

\* create_edge without the test of the target slot
CreateEdgeErrorNoSlot(sn, ss, tn, ts) ==
    IF sn \notin DOMAIN nodes THEN "NodeNotFound"
    ELSE IF tn \notin DOMAIN nodes THEN "NodeNotFound"
    ELSE IF ss \notin DOMAIN OutputTypes(nodes[sn]) THEN "SlotNotFound"
    ELSE IF InEdges(Edge(sn, ss, tn, ts), edges) THEN "EdgeExists"
    ELSE "ok"

\* create_edge without the test for an equal edge
CreateEdgeErrorNoDup(sn, ss, tn, ts) ==
    IF sn \notin DOMAIN nodes THEN "NodeNotFound"
    ELSE IF tn \notin DOMAIN nodes THEN "NodeNotFound"
    ELSE IF ss \notin DOMAIN OutputTypes(nodes[sn]) THEN "SlotNotFound"
    ELSE IF ts \notin DOMAIN InputTypes(nodes[tn]) THEN "SlotNotFound"
    ELSE "ok"

CreateEdgeError(sn, ss, tn, ts) ==
    IF sn \notin DOMAIN nodes THEN "NodeNotFound"
    ELSE IF tn \notin DOMAIN nodes THEN "NodeNotFound"
    ELSE IF ss \notin DOMAIN OutputTypes(nodes[sn]) THEN "SlotNotFound"
    ELSE IF ts \notin DOMAIN InputTypes(nodes[tn]) THEN "SlotNotFound"
    ELSE IF InEdges(Edge(sn, ss, tn, ts), edges) THEN "EdgeExists"
    ELSE "ok"

CreateEdge(sn, ss, tn, ts) ==
    LET err == CreateEdgeError(sn, ss, tn, ts) IN
    /\ err = "ok" => Len(edges) < MaxEdges
    /\ call' = Called("create_edge", sn, ss, tn, ts, err)
    /\ edges' = IF err = "ok" THEN Append(edges, Edge(sn, ss, tn, ts)) ELSE edges
    /\ UNCHANGED <<nodes, passed, inputs, restart, lifeVars, stop_event>>
    /\ UNCHANGED <<chanVars, pc, index, histVars, snapVars, stopCalls, sideVars>>

\* ------------------------------------------------------------- delete_edge
\* delete_edge that stops the endpoints before it looks for the edge
DeleteEdgeStopFirst(sn, ss, tn, ts) ==
    LET e == Edge(sn, ss, tn, ts)
        stopped == {sn, tn} \cap DOMAIN nodes
    IN /\ stop_event' = StopAllOf(stopped)
       /\ restart' = restart \cup Interrupted(stopped)
       /\ IF InEdges(e, edges)
          THEN /\ edges' = RemoveFirst(edges, e)
               /\ call' = Called("delete_edge", sn, ss, tn, ts, "ok")
          ELSE /\ call' = Called("delete_edge", sn, ss, tn, ts, "EdgeNotFound")
               /\ UNCHANGED edges
       /\ UNCHANGED <<nodes, passed, inputs, lifeVars>>
       /\ UNCHANGED <<chanVars, pc, index, histVars, snapVars, stopCalls, sideVars>>

\* delete_edge that stops the target node only
DeleteEdgeStopTarget(sn, ss, tn, ts) ==
    LET e == Edge(sn, ss, tn, ts)
        stopped == {tn} \cap DOMAIN nodes
    IN /\ IF InEdges(e, edges)
          THEN /\ edges' = RemoveFirst(edges, e)
               /\ stop_event' = StopAllOf(stopped)
               /\ restart' = restart \cup Interrupted(stopped)
               /\ call' = Called("delete_edge", sn, ss, tn, ts, "ok")
          ELSE /\ call' = Called("delete_edge", sn, ss, tn, ts, "EdgeNotFound")
               /\ UNCHANGED <<edges, stop_event, restart>>
       /\ UNCHANGED <<nodes, passed, inputs, lifeVars>>
       /\ UNCHANGED <<chanVars, pc, index, histVars, snapVars, stopCalls, sideVars>>

DeleteEdge(sn, ss, tn, ts) ==
    LET e == Edge(sn, ss, tn, ts)
        stopped == {sn, tn} \cap DOMAIN nodes
    IN /\ IF InEdges(e, edges)
          THEN /\ edges' = RemoveFirst(edges, e)
               /\ stop_event' = StopAllOf(stopped)
               /\ restart' = restart \cup Interrupted(stopped)
               /\ call' = Called("delete_edge", sn, ss, tn, ts, "ok")
          ELSE /\ call' = Called("delete_edge", sn, ss, tn, ts, "EdgeNotFound")
               /\ UNCHANGED <<edges, stop_event, restart>>
       /\ UNCHANGED <<nodes, passed, inputs, lifeVars>>
       /\ UNCHANGED <<chanVars, pc, index, histVars, snapVars, stopCalls, sideVars>>

\* --------------------------------------------------------------- start_all
\* comp_inputs[n] after the loop over graph.edges: a later edge onto a slot
\* overwrites an earlier one.  A channel is named by the node and the output
\* slot that expose it.
EdgesOnto(n, sl) ==
    {i \in 1..Len(edges) : edges[i].target_node = n /\ edges[i].target_slot = sl}

CompInputs(n) ==
    [sl \in {x \in Slots : EdgesOnto(n, x) # {}} |->
        LET i == CHOOSE k \in EdgesOnto(n, sl) : \A j \in EdgesOnto(n, sl) : j <= k
        IN <<edges[i].source_node, edges[i].source_slot>>]

\* an edge of the list names a node that graph.nodes does not hold: the
\* first loop of start_all raises KeyError
DanglingEdge ==
    \E i \in 1..Len(edges) :
        edges[i].source_node \notin DOMAIN nodes \/ edges[i].target_node \notin DOMAIN nodes

\* start(**comp_inputs[n]) on every node: a node that is not running clears
\* its signal and spawns a worker bound to these inputs.  The KeyError of
\* the first loop comes before any start().
StartAll ==
    IF DanglingEdge
    THEN /\ call' = Called("start_all", "-", "-", "-", "-", "KeyError")
         /\ UNCHANGED <<nodes, edges, passed, inputs, restart, lifeVars, stop_event>>
         /\ UNCHANGED <<chanVars, pc, index, histVars, snapVars, stopCalls, sideVars>>
    ELSE
    LET spawning == {n \in DOMAIN nodes : status[n] # "running"}
    IN /\ \A n \in spawning : Len(workers[n]) < MaxRestarts
       /\ passed' = [n \in Owners |-> IF n \in DOMAIN nodes THEN CompInputs(n) ELSE passed[n]]
       /\ inputs' = [n \in Owners |-> IF n \in spawning THEN CompInputs(n) ELSE inputs[n]]
       /\ stop_event' = [n \in Owners |-> IF n \in spawning THEN FALSE ELSE stop_event[n]]
       /\ workers' = [n \in Owners |->
                        IF n \in spawning THEN Append(workers[n], "spawned") ELSE workers[n]]
       /\ call' = Called("start_all", "-", "-", "-", "-", "ok")
       /\ UNCHANGED <<nodes, edges, restart, status, started_at, error>>
       /\ UNCHANGED <<chanVars, pc, index, histVars, snapVars, stopCalls, sideVars>>

\* ---------------------------------------------------------------- stop_all
StopAll ==
    /\ stop_event' = StopAllOf(DOMAIN nodes)
    /\ call' = Called("stop_all", "-", "-", "-", "-", "ok")
    /\ UNCHANGED <<nodes, edges, passed, inputs, restart, lifeVars>>
    /\ UNCHANGED <<chanVars, pc, index, histVars, snapVars, stopCalls, sideVars>>

\* The graph under any sequence of edits, before the graph is started.  Node
\* ids are interchangeable in the service, so the edges asked for are those
\* onto node B, from either node.
GraphNext ==
    \/ \E cls \in ClassNames : CreateNode(cls)
    \/ \E id \in Owners : DeleteNode(id)
    \/ \E sn \in Owners : \E ss \in Slots, ts \in Slots : CreateEdge(sn, ss, "B", ts)
    \/ \E sn \in Owners : \E ss \in Slots, ts \in Slots : DeleteEdge(sn, ss, "B", ts)

GraphSpec == Init /\ [][GraphNext]_vars

\* A graph of VAD nodes that is started, edited while it runs and started
\* again: the edits are those of the audio edges onto node B, the workers
\* are scheduled and return once they observe cancel.
WireNext ==
    \/ CreateNode("VAD")
    \/ \E id \in Owners : DeleteNode(id)
    \/ \E sn \in Owners : CreateEdge(sn, "audio", "B", "audio")
    \/ \E sn \in Owners : DeleteEdge(sn, "audio", "B", "audio")
    \/ StartAll
    \/ StopAll
    \/ \E o \in Owners : \E w \in WorkerIds : SafeRunBegin(o, w)
    \/ \E o \in Owners : \E w \in WorkerIds : RunReturn(o, w)

WireSpec == Init /\ [][WireNext]_vars

\* A spawned thread is scheduled, and run() returns once it observes cancel.
WireFairness ==
    \A o \in Owners : \A w \in WorkerIds :
        /\ WF_vars(SafeRunBegin(o, w))
        /\ WF_vars(RunReturn(o, w))

FairWireSpec == WireSpec /\ WireFairness

\* Nodes created, started and deleted, with an audio edge from the output of
\* node B to its own input, and the workers scheduled; a worker returns once
\* delete_node has stopped its component.
NodeNext ==
    \/ \E cls \in {"VAD", "Unregistered"} : CreateNode(cls)
    \/ \E id \in Owners : DeleteNode(id)
    \/ CreateEdge("B", "audio", "B", "audio")
    \/ StartAll
    \/ \E o \in Owners : \E w \in WorkerIds : SafeRunBegin(o, w)
    \/ \E o \in Owners : \E w \in WorkerIds : RunReturn(o, w)

NodeSpec == Init /\ [][NodeNext]_vars

\* -------------------------------------------------------------- load_graph
\* The persisted documents: a saved graph of audio edges between its own
\* nodes, whose node types may name a class that is no longer registered.
DocNodes == UNION {[S -> {"VAD", "Unregistered"}] : S \in (SUBSET Owners) \ {{}}}

DocEdgeChoices(dn) ==
    {Edge(sn, "audio", tn, "audio") : sn \in DOMAIN dn, tn \in DOMAIN dn}

DocEdges(dn) ==
    UNION {{es \in [1..k -> DocEdgeChoices(dn)] : \A i, j \in 1..k : es[i] = es[j] => i = j}
              : k \in 0..MaxEdges}

\* load_graph of the document (dn, de), when the process starts: a node whose
\* type is not registered is skipped, the edges are taken as they are
LoadGraph(dn, de) ==
    /\ call.op = "none"
    /\ nodes' = [n \in {x \in DOMAIN dn : dn[x] \in Classes} |-> dn[n]]
    /\ edges' = de
    /\ call' = Called("load_graph", "-", "-", "-", "-", "ok")
    /\ UNCHANGED <<passed, inputs, restart, lifeVars, stop_event>>
    /\ UNCHANGED <<chanVars, pc, index, histVars, snapVars, stopCalls, sideVars>>

\* A graph loaded when the process starts, then started and stopped.
LoadNext ==
    \/ \E dn \in DocNodes : \E de \in DocEdges(dn) : LoadGraph(dn, de)
    \/ call.op # "none" /\ StartAll
    \/ call.op # "none" /\ StopAll
    \/ \E o \in Owners : \E w \in WorkerIds : SafeRunBegin(o, w)
    \/ \E o \in Owners : \E w \in WorkerIds : RunReturn(o, w)

LoadSpec == Init /\ [][LoadNext]_vars

\* ------------------------------------------------- start_all, node by node
\* what start() writes: the cancel signal, the worker list and the bindings
\* the worker is given
StartState == [stop_event |-> stop_event, workers |-> workers, inputs |-> inputs]

\* start(**bind) that binds only the input slots whose source node has been
\* started before
StartOnEager(st, n, bind) ==
    IF status[n] = "running"
    THEN st
    ELSE [stop_event |-> [st.stop_event EXCEPT ![n] = FALSE],
          workers |-> [st.workers EXCEPT ![n] = Append(@, "spawned")],
          inputs |-> [st.inputs EXCEPT ![n] =
                         [sl \in {x \in DOMAIN bind : st.workers[bind[x][1]] # <<>>} |-> bind[sl]]]]

\* node.inner.start(**bind) on node n in state st
StartOn(st, n, bind) ==
    IF status[n] = "running"
    THEN st
    ELSE [stop_event |-> [st.stop_event EXCEPT ![n] = FALSE],
          workers |-> [st.workers EXCEPT ![n] = Append(@, "spawned")],
          inputs |-> [st.inputs EXCEPT ![n] = bind]]

\* the second loop of start_all visiting the nodes in the given order;
\* comp_inputs is complete before the first start()
RECURSIVE StartInOrder(_, _)
StartInOrder(order, st) ==
    IF order = <<>> THEN st
    ELSE StartInOrder(Tail(order), StartOn(st, Head(order), CompInputs(Head(order))))

\* the orders in which graph.nodes.items() may list the nodes of S
Orders(S) ==
    {p \in [1..Cardinality(S) -> S] : \A i, j \in 1..Cardinality(S) : p[i] = p[j] => i = j}

\* A graph of VAD nodes that is built, started once and stopped: the worker
\* of node A publishes on its audio channel, the worker of node B streams
\* the channel it was bound to (thread b1).
FirstStartAll ==
    /\ \A n \in Owners : workers[n] = <<>>
    /\ StartAll

\* self.outputs.audio.send(frame) in the producer's worker
ProducerSend ==
    /\ InRun("A") # {}
    /\ Send

\* `for frame in audio.stream(self)` in the consumer's worker: first next()
ConsumerRegister(t) ==
    /\ InRun(OwnerOf(t)) # {}
    /\ "audio" \in DOMAIN inputs[OwnerOf(t)]
    /\ inputs[OwnerOf(t)]["audio"] = <<"A", "audio">>
    /\ Register(t)

OrderThreads == {"b1"}

OrderNext ==
    \/ CreateNode("VAD")
    \/ CreateEdge("A", "audio", "B", "audio")
    \/ FirstStartAll
    \/ StopAll
    \/ \E o \in Owners : \E w \in WorkerIds : SafeRunBegin(o, w)
    \/ \E o \in Owners : \E w \in WorkerIds : RunReturn(o, w)
    \/ ProducerSend
    \/ \E t \in OrderThreads : ConsumerRegister(t)
    \/ \E t \in OrderThreads : LoopCheck(t)
    \/ \E t \in OrderThreads : Enter(t)
    \/ \E t \in OrderThreads : Wake(t)
    \/ \E t \in OrderThreads : Resume(t)

OrderSpec == Init /\ [][OrderNext]_vars

\* Every thread that can take a step is scheduled, a timed wait returns and
\* the consumer asks for the next item.
OrderFairness ==
    /\ \A o \in Owners : \A w \in WorkerIds : WF_vars(SafeRunBegin(o, w))
    /\ \A t \in OrderThreads :
          /\ WF_vars(ConsumerRegister(t))
          /\ WF_vars(LoopCheck(t))
          /\ WF_vars(Enter(t))
          /\ WF_vars(Wake(t))
          /\ WF_vars(Resume(t))

FairOrderSpec == OrderSpec /\ OrderFairness

\* -------------------------------------------------------------------- Next
Next ==
    \/ Send
    \/ \E t \in Threads : Register(t)
    \/ \E t \in Threads : LoopCheck(t)
    \/ \E t \in Threads : Enter(t)
    \/ \E t \in Threads : Wake(t)
    \/ \E t \in Threads : Resume(t)
    \/ \E t \in Threads : Close(t)
    \/ \E t \in Threads : Unwind(t)
    \/ \E o \in Owners : Stop(o)

Spec == Init /\ [][Next]_vars

\* The scheduler runs every thread that can take a step, a timed wait
\* returns, and a consumer that holds an item asks for the next one unless
\* it drops the stream.
Fairness ==
    \A t \in Threads :
        /\ WF_vars(LoopCheck(t))
        /\ WF_vars(Enter(t))
        /\ WF_vars(Wake(t))
        /\ WF_vars(Resume(t))
        /\ WF_vars(Unwind(t))

FairSpec == Spec /\ Fairness

\* The channel used only by the two threads of component A, which is never
\* stopped.
SharedThreads == {t \in Threads : OwnerOf(t) = "A"}

SharedNext ==
    \/ SendDeep
    \/ \E t \in SharedThreads : Register(t)
    \/ \E t \in SharedThreads : LoopCheck(t)
    \/ \E t \in SharedThreads : Enter(t)
    \/ \E t \in SharedThreads : Wake(t)
    \/ \E t \in SharedThreads : Resume(t)
    \/ \E t \in SharedThreads : Close(t)
    \/ \E t \in SharedThreads : Unwind(t)

SharedSpec == Init /\ [][SharedNext]_vars

\* The two threads of component A while the component is stopped at any
\* moment.
CancelNext ==
    \/ Send
    \/ Stop("A")
    \/ \E t \in SharedThreads : Register(t)
    \/ \E t \in SharedThreads : LoopCheck(t)
    \/ \E t \in SharedThreads : Enter(t)
    \/ \E t \in SharedThreads : Wake(t)
    \/ \E t \in SharedThreads : Resume(t)
    \/ \E t \in SharedThreads : Close(t)
    \/ \E t \in SharedThreads : Unwind(t)

CancelSpec == Init /\ [][CancelNext]_vars

\* The two threads of component A with snapshot() called at any moment, by
\* any number of snapshotters.
SnapNext ==
    \/ SendSnap
    \/ Snapshot
    \/ \E t \in SharedThreads : Register(t)
    \/ \E t \in SharedThreads : LoopCheck(t)
    \/ \E t \in SharedThreads : Enter(t)
    \/ \E t \in SharedThreads : Wake(t)
    \/ \E t \in SharedThreads : Resume(t)
    \/ \E t \in SharedThreads : Close(t)
    \/ \E t \in SharedThreads : Unwind(t)

SnapSpec == Init /\ [][SnapNext]_vars

\* The same with the deeper send bound.
SnapDeepNext == SharedNext \/ Snapshot

SnapDeepSpec == Init /\ [][SnapDeepNext]_vars

\* A component whose run() hands one input channel to a helper thread (the
\* passthrough thread of ASR.run): the helper streams the channel as the
\* component, run() itself neither waits for the helper nor joins it.  With
\* a single stream on the id, next() has no failing outcome.
HelperThreads == {"a1"}

\* the helper thread, started inside run(), subscribes
HelperRegister(t) ==
    /\ \E w \in 1..Len(workers[OwnerOf(t)]) : workers[OwnerOf(t)][w] # "spawned"
    /\ Register(t)

\* the helper leaves its loop on None and the generator is closed
HelperClose(t) ==
    /\ pc[t] \in {"cancelled", "sentinel"}
    /\ Close(t)

HelperNext ==
    \/ Send
    \/ \E o \in LifeOwners : Start(o)
    \/ \E o \in LifeOwners : StopCall(o)
    \/ \E o \in LifeOwners : \E w \in WorkerIds : SafeRunBegin(o, w)
    \/ \E o \in LifeOwners : \E w \in WorkerIds : RunReturn(o, w)
    \/ \E o \in LifeOwners : \E w \in WorkerIds : RunReturnOwn(o, w)
    \/ \E o \in LifeOwners : \E w \in WorkerIds : RunRaise(o, w)
    \/ \E t \in HelperThreads : HelperRegister(t)
    \/ \E t \in HelperThreads : LoopCheck(t)
    \/ \E t \in HelperThreads : Enter(t)
    \/ \E t \in HelperThreads : Wake(t)
    \/ \E t \in HelperThreads : Resume(t)
    \/ \E t \in HelperThreads : HelperClose(t)

HelperSpec == Init /\ [][HelperNext]_vars

\* Every thread that can take a step is scheduled, a timed wait returns, and
\* the helper takes every item and leaves on None.
HelperFairness ==
    /\ LifeFairness
    /\ \A t \in HelperThreads :
          /\ WF_vars(HelperRegister(t))
          /\ WF_vars(LoopCheck(t))
          /\ WF_vars(Enter(t))
          /\ WF_vars(Wake(t))
          /\ WF_vars(Resume(t))
          /\ WF_vars(HelperClose(t))

FairHelperSpec == HelperSpec /\ HelperFairness

\* ===================================================== Topic and Stream
\* The Topic revision of the broadcast buffer (core/topic.py): every Stream
\* has its own sub_id and keeps its own _index; _wait_and_get leaves the
\* critical section before it reads the item, so the expression
\* self._items[index - self._offset] is evaluated without the lock: first
\* the subscript (a read of _offset), then the element of the list.  _gc runs
\* inside the lock and is one step.

\* everything the Topic and its Streams never touch
mainVars == <<chanVars, stop_event, pc, index, histVars, lifeVars, snapVars,
              stopCalls, graphVars>>

\* Topic._gc on cursors c: <<items, offset>>
TopicGc(c) ==
    LET drop == IF DOMAIN c = {} THEN 0 ELSE MinCursor(c) - topic_offset IN
    IF drop > 0
    THEN <<SubSeq(topic_items, drop + 1, Len(topic_items)), topic_offset + drop>>
    ELSE <<topic_items, topic_offset>>

\* Topic.send (the topic is never closed)
TopicSend ==
    /\ topic_sent < MaxTopicSend
    /\ topic_sent' = topic_sent + 1
    /\ topic_items' = Append(topic_items, topic_sent')
    /\ UNCHANGED <<topic_offset, topic_cursors, stream_pc, stream_index,
                   stream_sub, stream_got, stream_reg, mainVars, pipeVars, videoVars>>

\* Stream.__init__: self._sub_id, self._index = channel._register()
StreamOpen(s) ==
    /\ stream_pc[s] = "idle"
    /\ topic_cursors' = Put(topic_cursors, s, topic_offset + Len(topic_items))
    /\ stream_index' = [stream_index EXCEPT ![s] = topic_offset + Len(topic_items)]
    /\ stream_reg' = [stream_reg EXCEPT ![s] = topic_offset + Len(topic_items)]
    /\ stream_pc' = [stream_pc EXCEPT ![s] = "ready"]
    /\ UNCHANGED <<topic_items, topic_offset, topic_sent, stream_sub, stream_got, mainVars, pipeVars, videoVars>>

\* Stream.send -> _wait_and_get, lines 68-74: the wait ends when an item
\* with this index has been published, and the lock is released
StreamWait(s) ==
    /\ stream_pc[s] = "ready"
    /\ stream_index[s] < topic_offset + Len(topic_items)
    /\ stream_pc' = [stream_pc EXCEPT ![s] = "unlocked"]
    /\ UNCHANGED <<topic_items, topic_offset, topic_cursors, topic_sent,
                   stream_index, stream_sub, stream_got, stream_reg, mainVars, pipeVars, videoVars>>

\* line 75, without the lock: index - self._offset is evaluated
StreamSubscript(s) ==
    /\ stream_pc[s] = "unlocked"
    /\ stream_sub' = [stream_sub EXCEPT ![s] = stream_index[s] - topic_offset]
    /\ stream_pc' = [stream_pc EXCEPT ![s] = "subscript"]
    /\ UNCHANGED <<topic_items, topic_offset, topic_cursors, topic_sent,
                   stream_index, stream_got, stream_reg, mainVars, pipeVars, videoVars>>

\* line 75, without the lock: self._items[...] with the subscript evaluated
\* before; IndexError leaves Stream.send, which catches StopIteration only
StreamRead(s) ==
    /\ stream_pc[s] = "subscript"
    /\ IF PyIndexOk(topic_items, stream_sub[s])
       THEN /\ stream_got' = [stream_got EXCEPT ![s] = Append(@, PyIndex(topic_items, stream_sub[s]))]
            /\ stream_pc' = [stream_pc EXCEPT ![s] = "got"]
       ELSE /\ stream_pc' = [stream_pc EXCEPT ![s] = "indexError"]
            /\ UNCHANGED stream_got
    /\ stream_sub' = [stream_sub EXCEPT ![s] = 0]
    /\ UNCHANGED <<topic_items, topic_offset, topic_cursors, topic_sent,
                   stream_index, stream_reg, mainVars, pipeVars, videoVars>>

\* Stream.send lines 110-112: self._index += 1; _advance(sub_id, index)
StreamAdvance(s) ==
    /\ stream_pc[s] = "got"
    /\ LET c == Put(topic_cursors, s, stream_index[s] + 1)
           g == TopicGc(c)
       IN /\ topic_cursors' = c
          /\ topic_items' = g[1]
          /\ topic_offset' = g[2]
    /\ stream_index' = [stream_index EXCEPT ![s] = @ + 1]
    /\ stream_pc' = [stream_pc EXCEPT ![s] = "ready"]
    /\ UNCHANGED <<topic_sent, stream_sub, stream_got, stream_reg, mainVars, pipeVars, videoVars>>

\* Stream.close between two items: _unregister(sub_id)
StreamClose(s) ==
    /\ stream_pc[s] = "ready"
    /\ LET c == Pop(topic_cursors, s)
           g == TopicGc(c)
       IN /\ topic_cursors' = c
          /\ topic_items' = g[1]
          /\ topic_offset' = g[2]
    /\ stream_pc' = [stream_pc EXCEPT ![s] = "closed"]
    /\ UNCHANGED <<topic_sent, stream_index, stream_sub, stream_got, stream_reg, mainVars, pipeVars, videoVars>>

TopicNext ==
    \/ TopicSend
    \/ \E s \in Streams : StreamOpen(s)
    \/ \E s \in Streams : StreamWait(s)
    \/ \E s \in Streams : StreamSubscript(s)
    \/ \E s \in Streams : StreamRead(s)
    \/ \E s \in Streams : StreamAdvance(s)
    \/ \E s \in Streams : StreamClose(s)

TopicSpec == Init /\ [][TopicNext]_vars

\* ========================================================= PipelineManager
\* PipelineManager._apply (pipeline.py) as a function of the config.
\* The names a config is made of: keys of NODE_CLASSES
PipeNames == {"Microphone", "VAD", "ASR"}

NODE_CLASSES == {"Microphone", "VAD", "ASR", "LLM", "TTS", "STS", "Speaker"}

PipeSources == {"Microphone"}

PipeEdge(src, tgt) == [source |-> src, target |-> tgt]

SeqUpTo(S, n) == UNION {[1..k -> S] : k \in 0..n}

Configs ==
    {[nodes |-> ns, edges |-> es] :
        ns \in SeqUpTo(PipeNames, MaxNames),
        es \in SeqUpTo({PipeEdge(a, b) : a \in PipeNames, b \in PipeNames}, MaxPipeEdges)}

\* the keys of adj and of in_degree
NameSet(cfg) == {cfg.nodes[i] : i \in 1..Len(cfg.nodes)}

\* lines 66-69: an edge names a node that is not a key of adj
UnknownEdge(cfg) ==
    \E i \in 1..Len(cfg.edges) :
        cfg.edges[i].source \notin NameSet(cfg) \/ cfg.edges[i].target \notin NameSet(cfg)

\* adj[n] after the loop: the targets of the edges out of n, in edge order
PipeAdj(cfg, n) ==
    LET es == SelectSeq(cfg.edges, LAMBDA e : e.source = n)
    IN [i \in 1..Len(es) |-> es[i].target]

\* in_edges after the loop: target -> source of the last edge onto it
PipeInEdges(cfg) ==
    [t \in {cfg.edges[i].target : i \in 1..Len(cfg.edges)} |->
        LET I == {i \in 1..Len(cfg.edges) : cfg.edges[i].target = t}
            last == CHOOSE k \in I : \A j \in I : j <= k
        IN cfg.edges[last].source]

\* lines 74-76: one increment per key of in_edges
InDegree(cfg) ==
    [n \in NameSet(cfg) |-> IF n \in DOMAIN PipeInEdges(cfg) THEN 1 ELSE 0]

\* lines 83-86 for the targets of one node: <<in_degree, queue>>
RECURSIVE Relax(_, _, _)
Relax(tgts, deg, queue) ==
    IF tgts = <<>> THEN <<deg, queue>>
    ELSE LET nxt == Head(tgts)
             d == deg[nxt] - 1
         IN Relax(Tail(tgts), [deg EXCEPT ![nxt] = d],
                  IF d = 0 THEN Append(queue, nxt) ELSE queue)

\* lines 80-86: the while loop over the queue
RECURSIVE TopoLoop(_, _, _, _)
TopoLoop(cfg, queue, deg, order) ==
    IF queue = <<>> THEN order
    ELSE LET cur == Head(queue)
             r == Relax(PipeAdj(cfg, cur), deg, Tail(queue))
         IN TopoLoop(cfg, r[2], r[1], Append(order, cur))

\* lines 78-86
TopoOrder(cfg) ==
    TopoLoop(cfg, SelectSeq(cfg.nodes, LAMBDA n : InDegree(cfg)[n] = 0), InDegree(cfg), <<>>)

\* lines 94-115: the names instantiated, or the failure for lack of an
\* upstream instance
RECURSIVE Instantiate(_, _, _)
Instantiate(cfg, order, instances) ==
    IF order = <<>> THEN [ok |-> TRUE, instances |-> instances]
    ELSE LET name == Head(order) IN
         IF name \in PipeSources
         THEN Instantiate(cfg, Tail(order), instances \cup {name})
         ELSE IF \/ name \notin DOMAIN PipeInEdges(cfg)
                 \/ PipeInEdges(cfg)[name] \notin instances
              THEN [ok |-> FALSE, instances |-> instances]
              ELSE Instantiate(cfg, Tail(order), instances \cup {name})

\* what _apply returns and the nodes it has started
ApplyOutcome(cfg) ==
    IF \E n \in NameSet(cfg) : n \notin NODE_CLASSES
    THEN [status |-> "error", detail |-> "Unknown node", started |-> {}]
    ELSE IF UnknownEdge(cfg)
    THEN [status |-> "error", detail |-> "Edge references unknown node", started |-> {}]
    ELSE IF Len(TopoOrder(cfg)) # Len(cfg.nodes)
    THEN [status |-> "error", detail |-> "Cycle detected in pipeline graph", started |-> {}]
    ELSE LET r == Instantiate(cfg, TopoOrder(cfg), {}) IN
         IF ~r.ok
         THEN [status |-> "error", detail |-> "no connected source", started |-> {}]
         ELSE [status |-> "ok", detail |-> "-", started |-> r.instances]

\* PipelineManager.apply(config): the old pipeline is stopped and dropped,
\* the new one is built and started
PipelineApply(cfg) ==
    /\ pipe_config' = cfg
    /\ pipe_result' = [status |-> ApplyOutcome(cfg).status, detail |-> ApplyOutcome(cfg).detail]
    /\ pipe_nodes' = ApplyOutcome(cfg).started
    /\ UNCHANGED <<mainVars, topicVars, videoVars>>

\* The first apply of the process, on any config: what apply returns and
\* starts depends on its argument only.
PipeNext ==
    /\ pipe_result = NoResult
    /\ \E cfg \in Configs : PipelineApply(cfg)

PipeSpec == Init /\ [][PipeNext]_vars

\* ============================================================= VideoStream
\* The sink core/sink/video_stream.py: the worker stores each frame and sets
\* the event; wait_for_frame, called from the websocket handler, is
\* wait(timeout), clear(), read of _latest_frame, with no lock around them.
\* Frames are numbered in the order the worker takes them from its channel.

\* run, line 39: self._latest_frame = frame
VideoStore ==
    /\ video_pc = "loop"
    /\ latest_frame < MaxFrames
    /\ latest_frame' = latest_frame + 1
    /\ video_pc' = "stored"
    /\ UNCHANGED <<frame_event, wait_pc, wait_ret, wait_before,
                   mainVars, topicVars, pipeVars>>

\* run, line 40: self._frame_event.set()
VideoSet ==
    /\ video_pc = "stored"
    /\ frame_event' = TRUE
    /\ video_pc' = "loop"
    /\ UNCHANGED <<latest_frame, wait_pc, wait_ret, wait_before,
                   mainVars, topicVars, pipeVars>>

\* wait_for_frame, line 31: wait(timeout) returns, because the event is set
\* or because the timeout has elapsed
WaitWake ==
    /\ wait_pc = "idle"
    /\ wait_pc' = "woken"
    /\ UNCHANGED <<latest_frame, frame_event, video_pc, wait_ret, wait_before,
                   mainVars, topicVars, pipeVars>>

\* line 32: self._frame_event.clear()
WaitClear ==
    /\ wait_pc = "woken"
    /\ frame_event' = FALSE
    /\ wait_pc' = "cleared"
    /\ UNCHANGED <<latest_frame, video_pc, wait_ret, wait_before,
                   mainVars, topicVars, pipeVars>>

\* line 33: return self._latest_frame
WaitReturn ==
    /\ wait_pc = "cleared"
    /\ wait_ret' = latest_frame
    /\ wait_before' = IF wait_ret > 0 THEN wait_before \cup {wait_ret} ELSE wait_before
    /\ wait_pc' = "idle"
    /\ UNCHANGED <<latest_frame, frame_event, video_pc, mainVars, topicVars, pipeVars>>

VideoNext ==
    \/ VideoStore
    \/ VideoSet
    \/ WaitWake
    \/ WaitClear
    \/ WaitReturn

VideoSpec == Init /\ [][VideoNext]_vars

TypeOK ==
    /\ offset \in Nat
    /\ DOMAIN cursors \subseteq Owners
    /\ DOMAIN sub_msg = DOMAIN cursors
    /\ DOMAIN sub_byte = DOMAIN cursors
    /\ \A t \in Threads : pc[t] \in {"idle", "loop", "enter", "waiting", "yielded",
                                     "cancelled", "sentinel", "keyError", "indexError",
                                     "failed", "closed"}

\* ================================================================ properties
Range(f) == {f[k] : k \in DOMAIN f}

\* the stream of t is registered and its finally clause has not run
Active(t) == pc[t] \in {"loop", "enter", "waiting", "yielded", "cancelled", "sentinel"}

\* g is a run of consecutive elements of p, in the order of p
IsRun(g, p) ==
    \/ g = <<>>
    \/ \E k \in 1..Len(p) :
          /\ k + Len(g) - 1 <= Len(p)
          /\ \A j \in 1..Len(g) : g[j] = p[k + j - 1]

\* absolute index of a published item in the publish sequence
PubIndex(item) == (CHOOSE k \in 1..Len(published) : published[k] = item) - 1

\* C1: the items a subscription has received from next() are consecutive
\* items of the publish sequence, in publish order, none skipped or repeated.
C1_ContiguousDelivery == \A t \in Threads : IsRun(got[t], published)

\* C2: an item sent while a subscription is registered is eventually
\* received by it, unless the subscription is closed or its owner cancelled.
C2_EventualDelivery ==
    \A t \in Threads : \A i \in 1..MaxSend :
        (i \in owed[t]) ~>
            (i \in Range(got[t]) \/ pc[t] = "closed" \/ stop_event[OwnerOf(t)])

\* C3: a send() made while no subscriber is registered retains nothing and
\* leaves buffer, base offset, both delta counters and the last publish time
\* unchanged.
C3_SendWithoutSubscribersIsNoOp ==
    [][(sendCalls' = sendCalls + 1 /\ DOMAIN cursors = {}) =>
          /\ UNCHANGED <<items, offset, msg_count, byte_count, last_send_time>>
          /\ sendCalls' \notin Range(items')]_vars

C3_Witness ==
    /\ sendCalls > Len(published)
    /\ DOMAIN cursors = {}
    /\ \E t \in Threads : pc[t] = "closed"

\* C4: next() never returns an item that was published before the
\* subscription registered.
C4_NoHistory ==
    \A t \in Threads : \A j \in 1..Len(got[t]) : PubIndex(got[t][j]) >= regTail[t]

\* C5: every registered cursor lies between base_offset and
\* base_offset + buffer_depth.
C5_CursorWithinBuffer ==
    \A s \in DOMAIN cursors :
        offset <= cursors[s] /\ cursors[s] <= offset + Len(items)

\* C6: whenever a subscriber is registered, base_offset is the minimum cursor.
C6_BaseOffsetIsMinCursor ==
    DOMAIN cursors # {} => offset = MinCursor(cursors)

\* C7: whenever no subscriber is registered, the buffer is empty.
C7_EmptyWithoutSubscribers ==
    DOMAIN cursors = {} => Len(items) = 0

\* C8: two subscriptions active at the same time have distinct ids, each
\* keeps its own cursor while it is open, and a subscription that blocks for
\* lack of unread items has received every item published while it was
\* subscribed.
C8_IndependentSubscriptions ==
    /\ \A t, u \in Threads :
          (t # u /\ Active(t) /\ Active(u)) => SubId(t) # SubId(u)
    /\ \A t \in Threads : Active(t) => SubId(t) \in DOMAIN cursors
    /\ \A t \in Threads :
          (pc[t] = "waiting" /\ index[t] >= TailIndex) => owed[t] \subseteq Range(got[t])

\* C9: a subscription blocked in next() whose owner is cancelled eventually
\* gets the sentinel from that next(), with no further publish needed, and
\* its cursor is still registered as long as the subscription is not closed.
C9_CancelWakesBlockedSubscriber ==
    /\ \A t \in Threads :
          (pc[t] = "waiting" /\ stop_event[OwnerOf(t)]) ~> (pc[t] = "cancelled")
    /\ [](\A t \in Threads : pc[t] = "cancelled" => SubId(t) \in DOMAIN cursors)

\* C10: no next() and no close of a stream ends in an error.
C10_NoErrorToConsumer ==
    \A t \in Threads : pc[t] \notin {"keyError", "indexError", "failed"}

\* a step in which start() spawns a worker of o
StartStep(o) == Len(workers'[o]) > Len(workers[o])

\* a step that is a stop() call on o
StopStep(o) == stopCalls'[o] = stopCalls[o] + 1

\* a step in which worker w of o leaves run()
ExitStep(o, w) ==
    /\ w \in 1..Len(workers[o])
    /\ workers[o][w] = "run"
    /\ workers'[o][w] \in {"returned", "raised"}

\* C14: status only moves startup -> running -> stopped; a stopped component
\* stays stopped and start() on it spawns no worker.
C14_StoppedIsTerminal ==
    [][\A o \in Owners :
          /\ status'[o] # status[o] =>
                \/ status[o] = "startup" /\ status'[o] = "running"
                \/ status[o] = "running" /\ status'[o] = "stopped"
          /\ status[o] = "stopped" => ~StartStep(o)]_vars

\* C15: a component never has two workers inside run() at the same time.
C15_SingleWorker ==
    \A o \in Owners : Cardinality(InRun(o)) <= 1

C17_ExitSetsStopped ==
    [][\A o \in Owners : \A w \in WorkerIds :
          ExitStep(o, w) => status'[o] = "stopped"]_vars

C17_Witness ==
    /\ status["A"] = "stopped"
    /\ \E w \in 1..Len(workers["A"]) : workers["A"][w] = "raised"

\* C18: once run() of a component has raised, the error kind is recorded on
\* the component and is part of its snapshot.
C18_ErrorRecorded ==
    \A o \in Owners :
        (\E w \in 1..Len(workers[o]) : workers[o][w] = "raised") =>
            /\ error[o] # "None"
            /\ "error" \in DOMAIN ComponentSnapshot(o)

\* C19: stop() on a component in status startup leaves the status startup,
\* a never-started component can still be started after it, and start()
\* leaves the cancel signal clear for the worker it spawns.
C19_StopBeforeStart ==
    /\ [][\A o \in Owners :
            /\ (StopStep(o) /\ status[o] = "startup") => status'[o] = "startup"
            /\ StartStep(o) => ~stop_event'[o]]_vars
    /\ [](\A o \in LifeOwners :
            (status[o] = "startup" /\ workers[o] = <<>>) => ENABLED Start(o))

C19_Witness ==
    /\ stopCalls["A"] >= 1
    /\ workers["A"] = <<"run">>
    /\ status["A"] = "running"
    /\ ~stop_event["A"]

\* a step in which the finally clause of the stream of t calls _unregister
UnregisterStep(t) ==
    /\ pc[t] \in {"yielded", "cancelled", "sentinel", "keyError", "indexError"}
    /\ pc'[t] \in {"closed", "failed"}

\* C11: _unregister of a registered id removes its cursor and its counters,
\* leaves the other cursors alone and collects the buffer up to the smallest
\* remaining cursor; _unregister of an id that is not registered (a second
\* call, or an id never registered) changes no channel state and completes.
C11_UnregisterIdempotent ==
    [][\A t \in Threads : UnregisterStep(t) =>
          IF SubId(t) \in DOMAIN cursors
          THEN /\ DOMAIN cursors' = (DOMAIN cursors) \ {SubId(t)}
               /\ DOMAIN sub_msg' = (DOMAIN sub_msg) \ {SubId(t)}
               /\ DOMAIN sub_byte' = (DOMAIN sub_byte) \ {SubId(t)}
               /\ \A k \in DOMAIN cursors' : cursors'[k] = cursors[k]
               /\ offset' + Len(items') = offset + Len(items)
               /\ DOMAIN cursors' # {} =>
                     offset' = IF MinCursor(cursors') > offset
                               THEN MinCursor(cursors') ELSE offset
          ELSE UNCHANGED chanVars]_vars

C11_Witness ==
    /\ pc["a1"] = "closed"
    /\ pc["a2"] = "failed"
    /\ "A" \notin DOMAIN cursors
    /\ "B" \in DOMAIN cursors
    /\ offset >= 1

\* C12: the messages_delta of all snapshots taken so far plus the counter
\* not yet collected equals the number of sends accepted with a subscriber
\* registered; a send dropped for lack of subscribers is counted nowhere.
C12_DeltaSumIsAccepted ==
    /\ snapSum + msg_count = Len(published)
    /\ Len(published) <= sendCalls

C12_Witness ==
    /\ lastSnap.taken
    /\ lastSnap.msg_count_delta >= 1
    /\ snapSum > lastSnap.msg_count_delta
    /\ Len(published) < sendCalls

\* C13: in a snapshot the lag of every registered subscriber is never
\* negative and never greater than the reported buffer_depth.
C13_LagWithinBuffer ==
    lastSnap.taken =>
        \A k \in DOMAIN lastSnap.lag :
            /\ lastSnap.lag[k] >= 0
            /\ lastSnap.lag[k] <= lastSnap.buffer_depth

\* C20: once a component is stopped, the subscriptions made in its name are
\* eventually unsubscribed: no cursor of the component stays in the channel.
C20_StoppedReleasesSubscriptions ==
    \A o \in LifeOwners :
        (status[o] = "stopped") ~> (SubId("a1") \notin DOMAIN cursors)

\* -------------------------------------------------------------- graph claims
\* the edge named by the arguments of the last call
CallEdge(c) == Edge(c.n1, c.s1, c.n2, c.s2)

\* the nodes at the other end of an edge incident to node id
Neighbours(id) ==
    {n \in DOMAIN nodes :
        \E i \in 1..Len(edges) :
            \/ edges[i].source_node = id /\ edges[i].target_node = n
            \/ edges[i].target_node = id /\ edges[i].source_node = n}

\* stop_event after stop() has been called on exactly the nodes of S
StoppedExactly(S) ==
    \A n \in Owners :
        stop_event'[n] = (stop_event[n] \/ (n \in S /\ status[n] # "stopped"))

\* C21: every edge of the graph connects an output slot and an input slot of
\* equal declared element type.
C21_EdgeTypesMatch ==
    \A i \in 1..Len(edges) :
        LET e == edges[i] IN
        (/\ e.source_node \in DOMAIN nodes
         /\ e.target_node \in DOMAIN nodes
         /\ e.source_slot \in DOMAIN OutputTypes(nodes[e.source_node])
         /\ e.target_slot \in DOMAIN InputTypes(nodes[e.target_node]))
        => OutputTypes(nodes[e.source_node])[e.source_slot]
              = InputTypes(nodes[e.target_node])[e.target_slot]

\* C22: a target input slot has at most one incoming edge.
C22_OneEdgePerTargetSlot ==
    \A i \in 1..Len(edges) : \A j \in 1..Len(edges) :
        (/\ edges[i].target_node = edges[j].target_node
         /\ edges[i].target_slot = edges[j].target_slot) => i = j

\* C23: both endpoints of every edge are nodes of the graph, and create_edge
\* naming a node that is not in the graph fails with NodeNotFound.
C23_EndpointsExist ==
    /\ \A i \in 1..Len(edges) :
          /\ edges[i].source_node \in DOMAIN nodes
          /\ edges[i].target_node \in DOMAIN nodes
    /\ (call.op = "create_edge" /\ ({call.n1, call.n2} \ DOMAIN nodes # {}))
          => call.err = "NodeNotFound"

C23_Witness ==
    /\ call.op = "create_edge"
    /\ call.err = "NodeNotFound"
    /\ Len(edges) >= 1

\* C24: no two edges of the graph are equal, and create_edge of an edge that
\* is in the graph fails with EdgeExists and leaves the edge list as it is.
C24_EdgesUnique ==
    /\ [](\A i \in 1..Len(edges) : \A j \in 1..Len(edges) :
             edges[i] = edges[j] => i = j)
    /\ [][(call'.op = "create_edge" /\ call'.err = "EdgeExists") =>
             /\ InEdges(CallEdge(call'), edges)
             /\ edges' = edges]_vars
    /\ [][(call'.op = "create_edge" /\ call' # call /\ InEdges(CallEdge(call'), edges)) =>
             call'.err = "EdgeExists"]_vars

C24_Witness ==
    /\ call.op = "create_edge"
    /\ call.err = "EdgeExists"
    /\ Len(edges) = MaxEdges

C26_SlotsDeclared ==
    /\ \A i \in 1..Len(edges) :
          LET e == edges[i] IN
          (e.source_node \in DOMAIN nodes /\ e.target_node \in DOMAIN nodes) =>
              /\ e.source_slot \in DOMAIN OutputTypes(nodes[e.source_node])
              /\ e.target_slot \in DOMAIN InputTypes(nodes[e.target_node])
    /\ (/\ call.op = "create_edge"
        /\ call.n1 \in DOMAIN nodes
        /\ call.n2 \in DOMAIN nodes
        /\ \/ call.s1 \notin DOMAIN OutputTypes(nodes[call.n1])
           \/ call.s2 \notin DOMAIN InputTypes(nodes[call.n2]))
          => call.err = "SlotNotFound"

C26_Witness ==
    /\ call.op = "create_edge"
    /\ call.err = "SlotNotFound"
    /\ call.s1 \in DOMAIN OutputTypes(nodes[call.n1])
    /\ Len(edges) >= 1

\* C27: delete_node of a node of the graph removes that node and exactly its
\* incident edges, calls stop() on it and on its neighbours and on no other
\* node, and changes no status; on an absent id it changes nothing.
C27_DeleteNodeFrame ==
    [][(call'.op = "delete_node") =>
          LET id == call'.n1 IN
          IF id \in DOMAIN nodes
          THEN /\ nodes' = [n \in (DOMAIN nodes) \ {id} |-> nodes[n]]
               /\ edges' = SelectSeq(edges,
                              LAMBDA e : e.source_node # id /\ e.target_node # id)
               /\ StoppedExactly({id} \cup Neighbours(id))
               /\ UNCHANGED lifeVars
          ELSE UNCHANGED <<nodes, edges, stop_event, lifeVars>>]_vars

C27_Witness ==
    /\ call.op = "delete_node"
    /\ call.n1 \notin DOMAIN nodes
    /\ \E n \in DOMAIN nodes : stop_event[n]
    /\ edges = <<>>
    /\ stop_event[call.n1]

\* C28: delete_edge of an edge of the graph removes exactly that edge and
\* calls stop() on its source and its target and on no other node; of an
\* edge that is not in the graph it fails with EdgeNotFound and changes
\* nothing.
C28_DeleteEdgeFrame ==
    [][(call'.op = "delete_edge" /\ call' # call) =>
          LET e == CallEdge(call') IN
          IF InEdges(e, edges)
          THEN /\ call'.err = "ok"
               /\ edges' = SelectSeq(edges, LAMBDA x : x # e)
               /\ Len(edges') = Len(edges) - 1
               /\ StoppedExactly({e.source_node, e.target_node})
               /\ UNCHANGED <<nodes, lifeVars>>
          ELSE /\ call'.err = "EdgeNotFound"
               /\ UNCHANGED <<nodes, edges, stop_event, lifeVars>>]_vars

C28_Witness ==
    /\ call.op = "delete_edge"
    /\ call.err = "ok"
    /\ call.n1 # call.n2
    /\ stop_event[call.n1]
    /\ stop_event[call.n2]
    /\ Len(edges) >= 1

\* C29: after an edit has stopped a running node, once start_all has been
\* called the node, if still in the graph, is eventually running with the
\* input bindings the current edges give it (unless a later call intervenes).
C29_RestartAfterEdit ==
    \A n \in Owners :
        (call.op = "start_all" /\ n \in restart /\ n \in DOMAIN nodes)
            ~> (\/ call.op # "start_all"
                \/ status[n] = "running" /\ inputs[n] = CompInputs(n))

\* C30: the bindings start_all passes to the nodes are those of the edges:
\* for every edge the target's slot is bound to the channel of the source's
\* slot, and a slot without an incoming edge is not bound.
C30_BindingsFollowEdges ==
    call.op = "start_all" =>
        /\ \A i \in 1..Len(edges) :
              LET e == edges[i] IN
              /\ e.target_slot \in DOMAIN passed[e.target_node]
              /\ passed[e.target_node][e.target_slot] = <<e.source_node, e.source_slot>>
        /\ \A n \in DOMAIN nodes : \A sl \in DOMAIN passed[n] :
              \E i \in 1..Len(edges) :
                  edges[i].target_node = n /\ edges[i].target_slot = sl
\* ----------------------------------------------------------- start and stop
\* g is an initial part of p
IsPrefix(g, p) == Len(g) <= Len(p) /\ \A j \in 1..Len(g) : g[j] = p[j]

\* C31: start_all has the same outcome in whatever order it visits the
\* nodes (the same workers spawned, signals cleared and bindings given), and
\* a consumer receives, in publish order, every item its producer publishes
\* from the moment it subscribed, whether its worker ran before or after the
\* producer's.
C31_StartOrderIrrelevant ==
    /\ [](\A p \in Orders(DOMAIN nodes) : \A q \in Orders(DOMAIN nodes) :
             StartInOrder(p, StartState) = StartInOrder(q, StartState))
    /\ [][(call'.op = "start_all" /\ call' # call) =>
             \A p \in Orders(DOMAIN nodes) : StartState' = StartInOrder(p, StartState)]_vars
    /\ [](\A t \in OrderThreads :
             IsPrefix(got[t], SubSeq(published, regTail[t] + 1, Len(published))))
    /\ \A t \in OrderThreads : \A i \in 1..MaxSend :
          (i \in owed[t]) ~> (i \in Range(got[t]) \/ stop_event[OwnerOf(t)])

\* the consumer subscribed after the producer had published (an item was
\* dropped) and has received everything published since
C31_Witness ==
    /\ call.op = "start_all"
    /\ DOMAIN nodes = Owners
    /\ sendCalls = MaxSend
    /\ Len(published) < sendCalls
    /\ Len(published) >= 1
    /\ got["b1"] = published
    /\ inputs["B"] = CompInputs("B")
    /\ ~stop_event["B"]

SnapshotStep ==
    \/ lastSnap' # lastSnap
    \/ snapSum' # snapSum
    \/ msg_count > 0 /\ msg_count' = 0

\* C34: taking a snapshot changes no node or edge of the graph, no component
\* status, worker or signal, and no buffer content, base offset or cursor of
\* the channel, nor the position or the received items of any stream; it
\* only resets the delta counters.
C34_SnapshotFrame ==
    [][SnapshotStep =>
          /\ UNCHANGED <<items, offset, cursors, last_send_time>>
          /\ UNCHANGED <<pc, index, got, stop_event, lifeVars, nodes, edges>>
          /\ msg_count' = 0 /\ byte_count' = 0
          /\ DOMAIN sub_msg' = DOMAIN sub_msg
          /\ \A k \in DOMAIN sub_msg' : sub_msg'[k] = 0 /\ sub_byte'[k] = 0]_vars

\* a snapshot taken while an item is buffered for a subscriber that has
\* already received one
C34_Witness ==
    /\ lastSnap.taken
    /\ lastSnap.buffer_depth >= 1
    /\ lastSnap.msg_count_delta >= 1
    /\ msg_count = 0
    /\ Len(items) >= 1
    /\ \E t \in Threads : Len(got[t]) >= 1 /\ pc[t] = "yielded"

\* C35: when start() returns on a component in status startup, the status
\* is running and started_at is set.
C35_StartSetsRunning ==
    [][\A o \in Owners :
          (StartStep(o) /\ status[o] = "startup") =>
              /\ status'[o] = "running"
              /\ started_at'[o] # 0]_vars

\* -------------------------------------------------------------------- cancel
\* C36: while the cancel signal of its owner is tripped, a stream receives
\* an item only from a next() that found it unread without waiting, after an
\* item the following next() yields the sentinel, no item follows a
\* sentinel, and a next() that was waiting returns the sentinel and leaves
\* every cursor, the buffer and the items it has received as they were.
C36_CancelEndsStream ==
    [][\A t \in Threads :
          stop_event[OwnerOf(t)] =>
              /\ Len(got'[t]) > Len(got[t]) =>
                    /\ pc[t] = "enter"
                    /\ pc'[t] = "yielded"
                    /\ Len(got'[t]) = Len(got[t]) + 1
              /\ pc[t] = "yielded" => pc'[t] \in {"yielded", "sentinel", "closed"}
              /\ pc[t] \in {"sentinel", "cancelled"} => pc'[t] \in {pc[t], "closed"}
              /\ (pc[t] = "waiting" /\ pc'[t] # "waiting") =>
                    /\ pc'[t] = "cancelled"
                    /\ UNCHANGED <<cursors, items, offset, got>>]_vars

\* a stream that was waiting when the signal was tripped has been woken
\* with the sentinel while an item published since lies unread in the
\* buffer, and another stream of a cancelled owner has received one more item
C36_Witness ==
    /\ \E t \in Threads :
          /\ pc[t] = "cancelled"
          /\ stop_event[OwnerOf(t)]
          /\ SubId(t) \in DOMAIN cursors
          /\ cursors[SubId(t)] < TailIndex
    /\ \E u \in Threads :
          /\ stop_event[OwnerOf(u)]
          /\ pc[u] = "sentinel"
          /\ Len(got[u]) >= 1

\* --------------------------------------------------------------------- Topic
\* C37: a Stream returns exactly the items at its own successive indexes,
\* starting with the index it registered at (the item published by send
\* number i + 1 is the item of index i), and no read ends in IndexError.
C37_StreamReadsOwnIndex ==
    \A s \in Streams :
        /\ stream_pc[s] # "indexError"
        /\ \A j \in 1..Len(stream_got[s]) : stream_got[s][j] = stream_reg[s] + j

\* ---------------------------------------------------------------- load_graph
\* C38: in a loaded graph both endpoints of every edge are nodes of the
\* graph, and start_all on it does not fail.
C38_LoadedGraphEndpoints ==
    /\ \A i \in 1..Len(edges) :
          /\ edges[i].source_node \in DOMAIN nodes
          /\ edges[i].target_node \in DOMAIN nodes
    /\ call.op = "start_all" => call.err = "ok"

\* ------------------------------------------------------------------ pipeline
\* the nodes reached from the nodes of S by one edge of the config
PipeSucc(cfg, S) ==
    {cfg.edges[i].target : i \in {k \in 1..Len(cfg.edges) : cfg.edges[k].source \in S}}

RECURSIVE PipeClosure(_, _)
PipeClosure(cfg, S) ==
    LET T == S \cup PipeSucc(cfg, S) IN
    IF T = S THEN S ELSE PipeClosure(cfg, T)

\* the edges of the config contain a directed cycle
HasCycle(cfg) ==
    \E n \in PipeNames : n \in PipeClosure(cfg, PipeSucc(cfg, {n}))

\* C39: apply on a config whose edges contain a directed cycle returns
\* status error and starts no node, and it reports a cycle only for a config
\* whose edges contain one.
C39_CycleDetection ==
    pipe_result.status # "none" =>
        /\ HasCycle(pipe_config) =>
              pipe_result.status = "error" /\ pipe_nodes = {}
        /\ pipe_result.detail = "Cycle detected in pipeline graph" => HasCycle(pipe_config)

\* --------------------------------------------------------------------- video
\* C40: wait_for_frame returns a frame that has arrived since the call
\* before it returned, or None when no such frame has arrived: it never
\* returns a frame that an earlier call has returned.
C40_WaitReturnsNewFrame ==
    wait_ret > 0 => wait_ret \notin wait_before

====
